---- MODULE Spec2Model ----
(***************************************************************************)
(* PhysioTrack (Knee-Braced): the Cloud Functions updateExerciseProgress   *)
(* and onReadingCreated, the client's start-exercise handler, the client's *)
(* saveReading forwarder and the serial line parser, as state machines     *)
(* over the Firestore documents they read and write.                       *)
(*                                                                         *)
(* Firestore is the external collaborator: a document read returns the     *)
(* stored document, update() overwrites the named fields only, add()       *)
(* creates a document under a random identifier, and a query without       *)
(* orderBy returns its matches in document-identifier order.               *)
(* DocumentSnapshot.exists is read as the test "the document is stored".   *)
(***************************************************************************)
EXTENDS Integers, Sequences, FiniteSets, TLC

VARIABLES
  readings,           \* readings/{patientId}/events: Seq of Measurement documents
  assignedExercises,  \* patients/{patientId}/assignedExercises: Seq of documents
  exerciseProgress,   \* progress/{patientId}/exerciseProgress: Seq of documents
  progressOrder,      \* exerciseProgress identifiers in document-identifier order
  inv,                \* the updateExerciseProgress invocations, one per delivery
  redelivered,        \* creation events delivered a second time so far
  failures,           \* awaited calls of updateExerciseProgress that threw so far
  client,             \* the patient dashboard: handleStartExercise's position
  fwd,                \* the onReadingCreated invocations, one per Measurement
  clientReadings,     \* the flat readings collection the device hook writes
  tokens,             \* the serial line under parse, as the device formats it
  parsed,             \* what parseSerialLine returned for it
  hook                \* useArduinoConnection: its state, refs, ports and read loops

store == <<readings, assignedExercises, exerciseProgress, progressOrder>>
updaterVars == <<inv, redelivered, failures>>
forwardVars == <<fwd, clientReadings>>
parserVars == <<tokens, parsed>>
vars == <<store, updaterVars, client, forwardVars, parserVars, hook>>

-----------------------------------------------------------------------------
(* Bounds of the model                                                     *)

MaxReadings == 4      \* Measurements created under Spec
MaxInFlight == 2      \* updateExerciseProgress invocations running at once
MaxRedeliveries == 1  \* repeated deliveries of a creation event
SeqLen == 3           \* length of the enumerated angle streams under SpecSeq
MaxFailures == 1      \* awaited calls that throw under SpecSeq
MaxClientReadings == 2 \* Measurements the device hook saves under SpecFwd
MaxConnects == 2      \* connect calls under SpecHook
MaxExtremeReadings == 3 \* Measurements under SpecExtremes
MaxRequests == 1      \* startRecording calls awaiting the identifier request
MaxAssigned == 2      \* assignments of the exercise under SpecAssign
MaxAssignReadings == 2 \* Measurements under SpecAssign
MaxSessions == 1      \* sessions present when the patient starts, SpecAssign

(* Inputs                                                                  *)

NoExercise == "none"                 \* reading.exerciseId absent
ExerciseId == "ex1"
TargetAngleMin == 45                 \* the exercise template's default band
TargetAngleMax == 90
Angles == {30, 50, 95}               \* below, inside and above the band
TargetRepsChoices == {1, 2}          \* targetReps of the assignment under Spec
SeqTargetReps == {1, 2, 4}           \* and under SpecSeq
C2Angles == <<30, 50, 95, 60, 40, 70>>
C8Angles == <<10, 20, 30, 40, 100, 110, 120, 130, 140, 150, 160, 170, 180, 190, 200, 210>>

-----------------------------------------------------------------------------
(* Helpers                                                                 *)

Range(s) == {s[k] : k \in DOMAIN s}

RECURSIVE SumOver(_, _)
SumOver(f, S) ==
  IF S = {} THEN 0
  ELSE LET x == CHOOSE y \in S : TRUE IN f[x] + SumOver(f, S \ {x})

MinOf(a, b) == IF a <= b THEN a ELSE b
MaxOf(a, b) == IF a >= b THEN a ELSE b

(* An optional field is <<>> (undefined) or <<v>>.  OrElse is JavaScript's  *)
(* `x || y` on an optional number: undefined and 0 are both falsy.          *)
OrElse(opt, dflt) == IF opt = <<>> \/ opt[1] = 0 THEN dflt ELSE opt[1]

(* allReadings.slice(-n) *)
SliceLast(s, n) ==
  IF Len(s) <= n THEN s ELSE SubSeq(s, Len(s) - n + 1, Len(s))

(* FieldValue.arrayUnion(id) applied to the stored array *)
ArrayUnion(ids, id) == IF id \in Range(ids) THEN ids ELSE Append(ids, id)

-----------------------------------------------------------------------------
(* Documents                                                               *)

(* A Measurement as saveReading (firestore helpers) stores it.  The n8n    *)
(* fields are absent (<<>>) until a forwarder writes them.  Two history    *)
(* fields are not part of the document: annotations counts the forwarder   *)
(* writes, repsCredited the persisted updates of an invocation for this    *)
(* Measurement that left the session's stored count higher than before.    *)
NewReading(a, e) ==
  [angle |-> a, exerciseId |-> e,
   sentToN8N |-> FALSE, n8nResponse |-> <<>>, n8nStatusCode |-> <<>>,
   annotations |-> 0, repsCredited |-> 0]

(* assignExerciseToPatient: the template's targets copied, status assigned. *)
(* completions counts the updates that wrote status = completed. docId is  *)
(* the rank of the identifier addDoc generates: identifiers are random, so  *)
(* their order is independent of the order of creation.                     *)
NewAssigned(t) ==
  [exerciseId |-> ExerciseId, status |-> "assigned",
   targetAngleMin |-> TargetAngleMin, targetAngleMax |-> TargetAngleMax,
   targetReps |-> t, completions |-> 0, docId |-> 1]

(* The ranks a generated assignment identifier can take. *)
DocIds == 1..MaxAssigned

(* limit(1) without orderBy on the assignments: the match whose document   *)
(* identifier comes first.                                                 *)
FirstByDocId(S) ==
  CHOOSE a \in S : \A b \in S : assignedExercises[a].docId <= assignedExercises[b].docId

(* The session updateExerciseProgress adds when its query is empty. *)
LazyProgress(a, r) ==
  [assignedExerciseId |-> a, status |-> "active", repsCompleted |-> 0,
   readingIds |-> <<r>>,
   minAngle |-> <<readings[r].angle>>, maxAngle |-> <<readings[r].angle>>,
   averageAngle |-> <<>>, completions |-> 0]

(* The session createExerciseProgress adds for the client. *)
ClientProgress(a) ==
  [assignedExerciseId |-> a, status |-> "active", repsCompleted |-> 0,
   readingIds |-> <<>>, minAngle |-> <<>>, maxAngle |-> <<>>,
   averageAngle |-> <<>>, completions |-> 0]

(* outcome is what the invocation has returned: "null", "success" (the   *)
(* object with success: true), "failure" (the object with success: false). *)
IdleInv ==
  [pc |-> "idle", readingId |-> 0, aId |-> 0, pId |-> 0, created |-> FALSE,
   snapReps |-> 0, snapIds |-> <<>>, snapMin |-> <<>>, snapMax |-> <<>>,
   outcome |-> "none"]

InFlight(i) == inv[i].pc # "idle"
Running == {i \in DOMAIN inv : InFlight(i)}

(* add() draws a random document identifier: the new identifier lands at   *)
(* any position of the identifier order.                                   *)
InsertAt(s, k, x) == SubSeq(s, 1, k) \o <<x>> \o SubSeq(s, k + 1, Len(s))

-----------------------------------------------------------------------------
(* updateExerciseProgress: the queries                                     *)

(* where exerciseId == e, status in [assigned, in_progress], limit(1) *)
ActiveAssigned(e) ==
  {a \in DOMAIN assignedExercises :
     /\ assignedExercises[a].exerciseId = e
     /\ assignedExercises[a].status \in {"assigned", "in_progress"}}

(* where assignedExerciseId == a, status == active *)
ActiveProgress(a) ==
  {p \in DOMAIN exerciseProgress :
     /\ exerciseProgress[p].assignedExerciseId = a
     /\ exerciseProgress[p].status = "active"}

(* limit(1): the first match in document-identifier order *)
FirstInOrder(order, S) ==
  order[CHOOSE k \in DOMAIN order :
          /\ order[k] \in S
          /\ \A j \in 1..(k - 1) : order[j] \notin S]

-----------------------------------------------------------------------------
(* updateExerciseProgress: what it computes from the session it read       *)

InRange(angle, a) ==
  /\ angle >= assignedExercises[a].targetAngleMin
  /\ angle <= assignedExercises[a].targetAngleMax

(* Sensitivity variant: only the lower bound is compared. *)
WasOutOfRangeLow(angle, a) ==
  angle < assignedExercises[a].targetAngleMin

WasOutOfRange(angle, a) ==
  \/ angle < assignedExercises[a].targetAngleMin
  \/ angle > assignedExercises[a].targetAngleMax

(* Lines 175-199: updates.repsCompleted, <<>> when it is left undefined.   *)
(* v is an invocation: the Measurement it runs for, the assignment it      *)
(* found and the session fields it read.  RepsUpdateLevel is a sensitivity *)
(* variant that counts every in-range Measurement after the first.         *)
RepsUpdateLevel(v) ==
  LET angle == readings[v.readingId].angle
  IN IF InRange(angle, v.aId) /\ Len(v.snapIds) > 0
     THEN <<OrElse(<<v.snapReps>>, 0) + 1>>
     ELSE <<>>

RepsUpdate(v) ==
  LET angle == readings[v.readingId].angle
      previousReadingsCount == Len(v.snapIds)
  IN IF /\ InRange(angle, v.aId)
        /\ previousReadingsCount > 0
        /\ v.snapIds[previousReadingsCount] \in DOMAIN readings
        /\ WasOutOfRange(readings[v.snapIds[previousReadingsCount]].angle, v.aId)
     THEN <<OrElse(<<v.snapReps>>, 0) + 1>>
     ELSE <<>>

WindowSize == 10

(* Lines 201-213: the documents whose identifier is among the last ten     *)
(* entries of [...readingIds, readingId], and their mean as sum / count.   *)
(* AverageDocsAll is a sensitivity variant without the slice.              *)
AverageDocsAll(ids, r) ==
  Range(Append(ids, r)) \cap DOMAIN readings

AverageDocs(ids, r) ==
  Range(SliceLast(Append(ids, r), WindowSize)) \cap DOMAIN readings

AngleOf == [r \in DOMAIN readings |-> readings[r].angle]

AverageUpdate(v) ==
  LET docs == AverageDocs(v.snapIds, v.readingId)
  IN [sum |-> SumOver(AngleOf, docs), count |-> Cardinality(docs)]

(* Line 216: updates.repsCompleted >= targetReps; undefined >= n is false. *)
Completing(v) ==
  /\ RepsUpdate(v) # <<>>
  /\ RepsUpdate(v)[1] >= assignedExercises[v.aId].targetReps

(* Lines 166-171 and 215-219 applied by progressDoc.update(updates), line  *)
(* 230: the named fields are overwritten in the stored document s.         *)
ApplyUpdates(s, v) ==
  LET angle == readings[v.readingId].angle
      base == [s EXCEPT
                 !.readingIds = ArrayUnion(s.readingIds, v.readingId),
                 !.minAngle = <<MinOf(OrElse(v.snapMin, angle), angle)>>,
                 !.maxAngle = <<MaxOf(OrElse(v.snapMax, angle), angle)>>,
                 !.averageAngle = <<AverageUpdate(v)>>]
      counted == IF RepsUpdate(v) = <<>> THEN base
                 ELSE [base EXCEPT !.repsCompleted = RepsUpdate(v)[1]]
  IN IF Completing(v)
     THEN [counted EXCEPT !.status = "completed",
                          !.completions = s.completions + 1]
     ELSE counted

-----------------------------------------------------------------------------
(* updateExerciseProgress, one action per awaited call                     *)

(* The onCreate trigger fires: an invocation starts for Measurement r. *)
Triggered(r) == [IdleInv EXCEPT !.pc = "queryAssigned", !.readingId = r]

(* The invocation returns. *)
Finish(i, outcome) == [inv EXCEPT ![i] = [IdleInv EXCEPT !.outcome = outcome]]

(* saveReading (firestore helpers): a Measurement is added to the events   *)
(* collection, and its creation starts updateExerciseProgress.             *)
SaveReading(a, e) ==
  /\ readings' = Append(readings, NewReading(a, e))
  /\ inv' = Append(inv, Triggered(Len(readings) + 1))
  /\ fwd' = Append(fwd, [pc |-> "fetch", threw |-> FALSE, status |-> 0])
  /\ UNCHANGED <<assignedExercises, exerciseProgress, progressOrder, redelivered,
                 failures, client, clientReadings, parserVars, hook>>

CreateReading ==
  /\ Len(readings) < MaxReadings
  /\ Cardinality(Running) < MaxInFlight
  /\ \E a \in Angles : SaveReading(a, ExerciseId)

(* At-least-once delivery: the creation event of a stored Measurement is   *)
(* delivered again.                                                        *)
Redeliver ==
  /\ redelivered < MaxRedeliveries
  /\ Cardinality(Running) < MaxInFlight
  /\ \E r \in DOMAIN readings : inv' = Append(inv, Triggered(r))
  /\ redelivered' = redelivered + 1
  /\ UNCHANGED <<store, failures, client, forwardVars, parserVars, hook>>

(* A variant of QueryAssigned whose query lacks the status filter of line *)
(* 107.  It serves to test the sensitivity of the properties.              *)
QueryAssignedAnyStatus(i) ==
  /\ inv[i].pc = "queryAssigned"
  /\ LET e == readings[inv[i].readingId].exerciseId
         found == {a \in DOMAIN assignedExercises : assignedExercises[a].exerciseId = e}
     IN IF e = NoExercise \/ found = {}
        THEN inv' = Finish(i, "null")
        ELSE inv' = [inv EXCEPT ![i].pc = "queryProgress",
                                ![i].aId = FirstByDocId(found)]
  /\ UNCHANGED <<store, redelivered, failures, client, forwardVars, parserVars, hook>>

(* Lines 96-118: no exerciseId, or no assignment matches: return null. *)
QueryAssigned(i) ==
  /\ inv[i].pc = "queryAssigned"
  /\ LET e == readings[inv[i].readingId].exerciseId
     IN IF e = NoExercise \/ ActiveAssigned(e) = {}
        THEN inv' = Finish(i, "null")
        ELSE inv' = [inv EXCEPT ![i].pc = "queryProgress",
                                ![i].aId = FirstByDocId(ActiveAssigned(e))]
  /\ UNCHANGED <<store, redelivered, failures, client, forwardVars, parserVars, hook>>

(* Once the session is known the writes follow: the assignment's, line     *)
(* 222, only when the exercise completes.                                  *)
AfterSession(v) == IF Completing(v) THEN "updateAssigned" ELSE "updateProgress"

(* Lines 120-128 and 157-160: the active session is found and read. *)
QueryProgress(i) ==
  /\ inv[i].pc = "queryProgress"
  /\ LET found == ActiveProgress(inv[i].aId)
     IN IF found = {}
        THEN inv' = [inv EXCEPT ![i].pc = "addProgress"]
        ELSE LET p == FirstInOrder(progressOrder, found)
                 v == [inv[i] EXCEPT !.pId = p,
                                     !.snapReps = exerciseProgress[p].repsCompleted,
                                     !.snapIds = exerciseProgress[p].readingIds,
                                     !.snapMin = exerciseProgress[p].minAngle,
                                     !.snapMax = exerciseProgress[p].maxAngle]
             IN inv' = [inv EXCEPT ![i] = [v EXCEPT !.pc = AfterSession(v)]]
  /\ UNCHANGED <<store, redelivered, failures, client, forwardVars, parserVars, hook>>

(* Lines 133-156: no active session was found: one is added, seeded with   *)
(* this Measurement, and progressData is the seed.                         *)
AddProgress(i) ==
  /\ inv[i].pc = "addProgress"
  /\ LET p == Len(exerciseProgress) + 1
         r == inv[i].readingId
         v == [inv[i] EXCEPT !.pId = p, !.created = TRUE,
                             !.snapReps = 0,
                             !.snapIds = <<r>>,
                             !.snapMin = <<readings[r].angle>>,
                             !.snapMax = <<readings[r].angle>>]
     IN /\ exerciseProgress' = Append(exerciseProgress, LazyProgress(inv[i].aId, r))
        /\ \E k \in 0..Len(progressOrder) : progressOrder' = InsertAt(progressOrder, k, p)
        /\ inv' = [inv EXCEPT ![i] = [v EXCEPT !.pc = AfterSession(v)]]
  /\ UNCHANGED <<readings, assignedExercises, redelivered, failures, client,
                 forwardVars, parserVars, hook>>

(* Lines 221-225: the assignment is marked completed. *)
UpdateAssigned(i) ==
  /\ inv[i].pc = "updateAssigned"
  /\ assignedExercises' =
       [assignedExercises EXCEPT ![inv[i].aId].status = "completed",
                                 ![inv[i].aId].completions = @ + 1]
  /\ inv' = [inv EXCEPT ![i].pc = "updateProgress"]
  /\ UNCHANGED <<readings, exerciseProgress, progressOrder, redelivered, failures,
                 client, forwardVars, parserVars, hook>>

(* Line 230: the session document is updated; return success. *)
UpdateProgress(i) ==
  /\ inv[i].pc = "updateProgress"
  /\ LET p == inv[i].pId
         after == ApplyUpdates(exerciseProgress[p], inv[i])
     IN /\ exerciseProgress' = [exerciseProgress EXCEPT ![p] = after]
        /\ readings' =
             IF after.repsCompleted > exerciseProgress[p].repsCompleted
             THEN [readings EXCEPT ![inv[i].readingId].repsCredited = @ + 1]
             ELSE readings
  /\ inv' = Finish(i, "success")
  /\ UNCHANGED <<assignedExercises, progressOrder, redelivered, failures, client,
                 forwardVars, parserVars, hook>>

(* A variant of Fail without the catch of lines 234-237: the error leaves *)
(* the handler.  It serves to test the sensitivity of the properties.      *)
FailThrown(i) ==
  /\ InFlight(i)
  /\ failures < MaxFailures
  /\ failures' = failures + 1
  /\ inv' = Finish(i, "thrown")
  /\ UNCHANGED <<store, redelivered, client, forwardVars, parserVars, hook>>

(* Lines 234-237: the awaited call the invocation stands at throws; the    *)
(* catch returns success: false and nothing further is written.            *)
Fail(i) ==
  /\ InFlight(i)
  /\ failures < MaxFailures
  /\ failures' = failures + 1
  /\ inv' = Finish(i, "failure")
  /\ UNCHANGED <<store, redelivered, client, forwardVars, parserVars, hook>>

-----------------------------------------------------------------------------
(* The patient dashboard: handleStartExercise.  The device is taken to be  *)
(* connected; startRecording(exercise.exerciseId) returns at once.         *)

(* assignedExercises is the dashboard's state of that name: the statuses   *)
(* of the last assignment snapshot delivered to it.                        *)
IdleClient ==
  [pc |-> "idle", exercise |-> 0, status |-> "none",
   activeAssignmentId |-> 0, activeProgressId |-> 0, assignedExercises |-> <<>>]

(* A handler has returned: its locals are gone, the snapshot state stays. *)
ClientIdle == [IdleClient EXCEPT !.assignedExercises = client.assignedExercises]

(* Lines 869-892: the guards, setSessionLoading(true), startRecording. *)
HandleStartExercise(a) ==
  /\ client.pc = "idle"
  /\ client.activeAssignmentId = 0
  /\ assignedExercises[a].status # "completed"
  /\ client' = [client EXCEPT !.pc = "updateAssigned", !.exercise = a,
                              !.status = assignedExercises[a].status]
  /\ UNCHANGED <<store, updaterVars, forwardVars, parserVars, hook>>

(* Lines 894-896: updateAssignedExercise(status: in_progress). *)
StartUpdateAssigned ==
  /\ client.pc = "updateAssigned"
  /\ assignedExercises' = [assignedExercises EXCEPT ![client.exercise].status = "in_progress"]
  /\ client' = [client EXCEPT !.pc = "createProgress"]
  /\ UNCHANGED <<readings, exerciseProgress, progressOrder, updaterVars,
                 forwardVars, parserVars, hook>>

(* Lines 898-906: createExerciseProgress, then the active identifiers. *)
StartCreateProgress ==
  /\ client.pc = "createProgress"
  /\ LET p == Len(exerciseProgress) + 1
     IN /\ exerciseProgress' = Append(exerciseProgress, ClientProgress(client.exercise))
        /\ \E k \in 0..Len(progressOrder) : progressOrder' = InsertAt(progressOrder, k, p)
        /\ client' = [ClientIdle EXCEPT !.activeAssignmentId = client.exercise,
                                        !.activeProgressId = p]
  /\ UNCHANGED <<readings, assignedExercises, updaterVars, forwardVars, parserVars, hook>>

(* Lines 912-931: the awaited write throws; stopRecording, then the status *)
(* the card showed is written back, unless that write throws too.          *)
StartFails(reverted) ==
  /\ client.pc \in {"updateAssigned", "createProgress"}
  /\ assignedExercises' =
       IF reverted
       THEN [assignedExercises EXCEPT ![client.exercise].status = client.status]
       ELSE assignedExercises
  /\ client' = ClientIdle
  /\ UNCHANGED <<readings, exerciseProgress, progressOrder, updaterVars,
                 forwardVars, parserVars, hook>>

(* handleCompleteExercise, lines 935-940: the guard, stopRecording. *)
HandleCompleteExercise ==
  /\ client.pc = "idle"
  /\ client.activeAssignmentId # 0
  /\ client' = [client EXCEPT !.pc = "completeAssigned"]
  /\ UNCHANGED <<store, updaterVars, forwardVars, parserVars, hook>>

(* Lines 944-947: updateAssignedExercise(status: completed); without an    *)
(* active session the handler ends here, through the finally of lines      *)
(* 973-977.                                                                *)
CompleteUpdateAssigned ==
  /\ client.pc = "completeAssigned"
  /\ assignedExercises' =
       [assignedExercises EXCEPT ![client.activeAssignmentId].status = "completed",
                                 ![client.activeAssignmentId].completions = @ + 1]
  /\ client' = IF client.activeProgressId # 0
               THEN [client EXCEPT !.pc = "completeProgress"]
               ELSE ClientIdle
  /\ UNCHANGED <<readings, exerciseProgress, progressOrder, updaterVars,
                 forwardVars, parserVars, hook>>

(* Lines 949-955 and 973-977: updateExerciseProgress(status: completed),   *)
(* then the active identifiers are cleared.                                *)
CompleteUpdateProgress ==
  /\ client.pc = "completeProgress"
  /\ exerciseProgress' =
       [exerciseProgress EXCEPT ![client.activeProgressId].status = "completed",
                                ![client.activeProgressId].completions = @ + 1]
  /\ client' = ClientIdle
  /\ UNCHANGED <<readings, assignedExercises, progressOrder, updaterVars,
                 forwardVars, parserVars, hook>>

(* Lines 966-977: the awaited write throws; the catch shows a toast and    *)
(* the finally clears the active identifiers.                              *)
CompleteFails ==
  /\ client.pc \in {"completeAssigned", "completeProgress"}
  /\ client' = ClientIdle
  /\ UNCHANGED <<store, updaterVars, forwardVars, parserVars, hook>>

-----------------------------------------------------------------------------
(* The physiotherapist's dialog: handleAssign and assignExerciseToPatient  *)

(* The template is selected and Assign is pressed: addDoc stores a new     *)
(* assignment with the template's targets and status assigned.             *)
AssignExercise(t) ==
  /\ Len(assignedExercises) < MaxAssigned
  /\ \E d \in DocIds \ {assignedExercises[a].docId : a \in DOMAIN assignedExercises} :
       assignedExercises' = Append(assignedExercises, [NewAssigned(t) EXCEPT !.docId = d])
  /\ UNCHANGED <<readings, exerciseProgress, progressOrder, updaterVars, client,
                 forwardVars, parserVars, hook>>

-----------------------------------------------------------------------------
(* onReadingCreated: the webhook forwarder of the events collection        *)

HttpStatuses == {200, 500}
ResponseBody == "response body"
ErrorMessage == "fetch failed"      \* error.message of the thrown error

Annotated(doc, sent, response, code) ==
  [doc EXCEPT !.sentToN8N = sent, !.n8nResponse = <<response>>,
              !.n8nStatusCode = <<code>>, !.annotations = @ + 1]

(* Lines 52-61: fetch resolves with any HTTP status; the body is read. *)
FetchReturns(r, code) ==
  /\ fwd[r].pc = "fetch"
  /\ fwd' = [fwd EXCEPT ![r].pc = "update", ![r].status = code]
  /\ UNCHANGED <<store, updaterVars, client, clientReadings, parserVars, hook>>

(* Line 52 throws (transport error): control enters the catch, line 72. *)
FetchThrows(r) ==
  /\ fwd[r].pc = "fetch"
  /\ fwd' = [fwd EXCEPT ![r].pc = "catch", ![r].threw = TRUE]
  /\ UNCHANGED <<store, updaterVars, client, clientReadings, parserVars, hook>>

(* Lines 64-71: the response is written onto the Measurement. *)
WriteResponse(r) ==
  /\ fwd[r].pc = "update"
  /\ readings' = [readings EXCEPT
                    ![r] = Annotated(@, TRUE, ResponseBody, fwd[r].status)]
  /\ fwd' = [fwd EXCEPT ![r].pc = "done"]
  /\ UNCHANGED <<assignedExercises, exerciseProgress, progressOrder, updaterVars,
                 client, clientReadings, parserVars, hook>>

(* Line 64 throws: control enters the catch as well. *)
WriteResponseThrows(r) ==
  /\ fwd[r].pc = "update"
  /\ fwd' = [fwd EXCEPT ![r].pc = "catch"]
  /\ UNCHANGED <<store, updaterVars, client, clientReadings, parserVars, hook>>

(* Lines 76-82: the failure is written onto the Measurement. *)
WriteFailure(r) ==
  /\ fwd[r].pc = "catch"
  /\ readings' = [readings EXCEPT ![r] = Annotated(@, FALSE, ErrorMessage, 0)]
  /\ fwd' = [fwd EXCEPT ![r].pc = "done"]
  /\ UNCHANGED <<assignedExercises, exerciseProgress, progressOrder, updaterVars,
                 client, clientReadings, parserVars, hook>>

(* Line 76 throws: the function rejects, nothing is written. *)
WriteFailureThrows(r) ==
  /\ fwd[r].pc = "catch"
  /\ fwd' = [fwd EXCEPT ![r].pc = "rejected"]
  /\ UNCHANGED <<store, updaterVars, client, clientReadings, parserVars, hook>>

-----------------------------------------------------------------------------
(* saveReading of the device hook: the Measurement is added to the flat    *)
(* readings collection and forwarded by the client itself; the call is not *)
(* awaited by the read loop, so several run at once.                       *)

(* Lines 53-69: addDoc with sentToN8N: false. *)
HookSaveReading ==
  /\ Len(clientReadings) < MaxClientReadings
  /\ clientReadings' = Append(clientReadings,
       [sentToN8N |-> FALSE, n8nResponse |-> <<>>, n8nStatusCode |-> <<>>,
        annotations |-> 0, pc |-> "fetch", threw |-> FALSE, status |-> 0])
  /\ UNCHANGED <<store, updaterVars, client, fwd, parserVars, hook>>

(* Line 68: the addDoc of a record the read loop handed over resolves. *)
HookAddDocReturns(k) ==
  /\ clientReadings[k].pc = "add"
  /\ clientReadings' = [clientReadings EXCEPT ![k].pc = "fetch"]
  /\ UNCHANGED <<store, updaterVars, client, fwd, parserVars, hook>>

(* Lines 68, 101-103: addDoc throws; the outer catch logs the error and    *)
(* the record is not stored.                                               *)
HookAddDocThrows(k) ==
  /\ clientReadings[k].pc = "add"
  /\ clientReadings' = [clientReadings EXCEPT ![k].pc = "dropped"]
  /\ UNCHANGED <<store, updaterVars, client, fwd, parserVars, hook>>

(* Lines 73-82: fetch resolves; the body is parsed, {} when it is no JSON. *)
HookFetchReturns(k, code) ==
  /\ clientReadings[k].pc = "fetch"
  /\ clientReadings' = [clientReadings EXCEPT ![k].pc = "update", ![k].status = code]
  /\ UNCHANGED <<store, updaterVars, client, fwd, parserVars, hook>>

(* A variant of HookFetchThrows in which the error of the webhook call     *)
(* reaches the read loops, as it would if the loop awaited saveReading and *)
(* saveReading had no catch.  It serves to test the sensitivity of the     *)
(* properties.                                                             *)
HookFetchThrowsInLoop(k) ==
  /\ clientReadings[k].pc = "fetch"
  /\ clientReadings' = [clientReadings EXCEPT ![k].pc = "done", ![k].threw = TRUE]
  /\ hook' = [hook EXCEPT !.ports = [p \in DOMAIN @ |->
                                       IF @[p].loop = "live"
                                       THEN [@[p] EXCEPT !.loop = "failed"]
                                       ELSE @[p]]]
  /\ UNCHANGED <<store, updaterVars, client, fwd, parserVars>>

(* Lines 98-100: fetch throws; the catch logs the error and writes nothing. *)
HookFetchThrows(k) ==
  /\ clientReadings[k].pc = "fetch"
  /\ clientReadings' = [clientReadings EXCEPT ![k].pc = "done", ![k].threw = TRUE]
  /\ UNCHANGED <<store, updaterVars, client, fwd, parserVars, hook>>

(* Lines 84-88: updateDoc with the status and the stringified body. *)
HookUpdateDoc(k) ==
  /\ clientReadings[k].pc = "update"
  /\ clientReadings' =
       [clientReadings EXCEPT
          ![k] = [Annotated(@, TRUE, ResponseBody, clientReadings[k].status)
                    EXCEPT !.pc = "done"]]
  /\ UNCHANGED <<store, updaterVars, client, fwd, parserVars, hook>>

(* Line 84 throws: the same catch logs it. *)
HookUpdateDocThrows(k) ==
  /\ clientReadings[k].pc = "update"
  /\ clientReadings' = [clientReadings EXCEPT ![k].pc = "done"]
  /\ UNCHANGED <<store, updaterVars, client, fwd, parserVars, hook>>

-----------------------------------------------------------------------------
(* The serial line parser.  A line is a sequence of characters.            *)

DigitChars == <<"0", "1", "2", "3", "4", "5", "6", "7", "8", "9">>
Digits == Range(DigitChars)
DigitValue(c) == (CHOOSE k \in DOMAIN DigitChars : DigitChars[k] = c) - 1
Whitespace == {" ", "\t"}                 \* \s
AngleClass == Digits \cup {"."}           \* [\d.]
SignedClass == Digits \cup {".", "-"}     \* [\d.-]

Labels == << <<"A", "n", "g", "l", "e", ":">>,
             <<"R", "o", "l", "l", ":">>,
             <<"P", "i", "t", "c", "h", ":">>,
             <<"Y", "a", "w", ":">> >>
Classes == <<AngleClass, SignedClass, SignedClass, SignedClass>>

RECURSIVE Pow10(_)
Pow10(n) == IF n = 0 THEN 1 ELSE 10 * Pow10(n - 1)

(* The length of the longest run of characters of class starting at j. *)
RECURSIVE RunLength(_, _, _)
RunLength(line, j, class) ==
  IF j > Len(line) \/ line[j] \notin class THEN 0
  ELSE 1 + RunLength(line, j + 1, class)

(* The number the n digits from position j spell. *)
RECURSIVE DigitsValue(_, _, _)
DigitsValue(text, j, n) ==
  IF n = 0 THEN 0
  ELSE 10 * DigitsValue(text, j, n - 1) + DigitValue(text[j + n - 1])

(* line.match(/Label:\s*([class]+)/) tried at position i: the captured     *)
(* group as <<text>>, or <<>> when the pattern does not match there.       *)
MatchAt(line, i, label, class) ==
  LET j == i + Len(label) + RunLength(line, i + Len(label), Whitespace)
      n == RunLength(line, j, class)
  IN IF /\ i + Len(label) - 1 <= Len(line)
        /\ SubSeq(line, i, i + Len(label) - 1) = label
        /\ n > 0
     THEN <<SubSeq(line, j, j + n - 1)>>
     ELSE <<>>

(* The leftmost match, or <<>> for null. *)
Match(line, label, class) ==
  LET hits == {i \in DOMAIN line : MatchAt(line, i, label, class) # <<>>}
  IN IF hits = {} THEN <<>>
     ELSE MatchAt(line, CHOOSE i \in hits : \A j \in hits : i <= j, label, class)

(* parseFloat: the longest prefix that is a decimal literal (sign, digits, *)
(* a point, digits), as the fraction num/den; NaN when there is none.      *)
NaN == [nan |-> TRUE, num |-> 0, den |-> 1]

ParseFloat(text) ==
  LET neg == Len(text) > 0 /\ text[1] = "-"
      i == IF neg THEN 2 ELSE 1
      n1 == RunLength(text, i, Digits)
      point == i + n1 <= Len(text) /\ text[i + n1] = "."
      n2 == IF point THEN RunLength(text, i + n1 + 1, Digits) ELSE 0
      magnitude == DigitsValue(text, i, n1) * Pow10(n2)
                     + DigitsValue(text, i + n1 + 1, n2)
  IN IF n1 + n2 = 0 THEN NaN
     ELSE [nan |-> FALSE,
           num |-> IF neg THEN 0 - magnitude ELSE magnitude,
           den |-> Pow10(n2)]

Pending == [state |-> "pending", angle |-> NaN, roll |-> NaN, pitch |-> NaN, yaw |-> NaN]
Null == [Pending EXCEPT !.state = "null"]

(* Lines 31-47. *)
ParseSerialLine(line) ==
  LET m == [k \in 1..4 |-> Match(line, Labels[k], Classes[k])]
  IN IF \A k \in 1..4 : m[k] # <<>>
     THEN [state |-> "reading",
           angle |-> ParseFloat(m[1][1]), roll |-> ParseFloat(m[2][1]),
           pitch |-> ParseFloat(m[3][1]), yaw |-> ParseFloat(m[4][1])]
     ELSE Null

(* The device's side of the text protocol: each channel is printed as its  *)
(* label, optional whitespace and a signed decimal; a channel may be       *)
(* missing from a garbled line.                                            *)
NumberTokens ==
  { [neg |-> FALSE, whole |-> 5, frac |-> <<>>],
    [neg |-> TRUE, whole |-> 5, frac |-> <<>>],
    [neg |-> FALSE, whole |-> 45, frac |-> <<3>>],
    [neg |-> TRUE, whole |-> 0, frac |-> <<8>>] }
WhitespaceRuns == { <<>>, <<" ">>, <<"\t", " ">> }
AbsentToken == [present |-> FALSE, ws |-> <<>>,
                number |-> [neg |-> FALSE, whole |-> 0, frac |-> <<>>]]
TokenChoices ==
  {AbsentToken} \cup
  {[present |-> TRUE, ws |-> w, number |-> n] : w \in WhitespaceRuns, n \in NumberTokens}

RECURSIVE ToDigits(_)
ToDigits(n) ==
  IF n < 10 THEN <<DigitChars[n + 1]>>
  ELSE Append(ToDigits(n \div 10), DigitChars[(n % 10) + 1])

NumberText(t) ==
  (IF t.neg THEN <<"-">> ELSE <<>>)
    \o ToDigits(t.whole)
    \o (IF t.frac = <<>> THEN <<>>
        ELSE <<".">> \o [k \in DOMAIN t.frac |-> DigitChars[t.frac[k] + 1]])

RECURSIVE FracValue(_)
FracValue(f) ==
  IF f = <<>> THEN 0
  ELSE 10 * FracValue(SubSeq(f, 1, Len(f) - 1)) + f[Len(f)]

NumberValue(t) ==
  LET magnitude == t.whole * Pow10(Len(t.frac)) + FracValue(t.frac)
  IN [nan |-> FALSE, num |-> IF t.neg THEN 0 - magnitude ELSE magnitude,
      den |-> Pow10(Len(t.frac))]

RECURSIVE LineOf(_, _)
LineOf(toks, k) ==
  IF k = 0 THEN <<>>
  ELSE LineOf(toks, k - 1) \o
       (IF toks[k].present
        THEN <<" ">> \o Labels[k] \o toks[k].ws \o NumberText(toks[k].number)
        ELSE <<>>)

Line == LineOf(tokens, 4)

(* Lines 141-143: the read loop hands the line to the parser. *)
ParseLine ==
  /\ parsed = Pending
  /\ parsed' = ParseSerialLine(Line)
  /\ UNCHANGED <<store, updaterVars, client, forwardVars, tokens, hook>>

(* A garbled line: a label may be followed by any text of the characters   *)
(* of its class and beyond, well-formed or not.                            *)
TokenTexts ==
  { <<"5">>, <<"-", "5">>, <<"4", ".", "5">>,
    <<"-">>, <<".">>, <<"1", ".", "2", ".", "3">>, <<"-", "-", "4">> }
RawTokenChoices ==
  {[present |-> TRUE, ws |-> w, text |-> t] : w \in {<<>>, <<" ">>}, t \in TokenTexts}

RECURSIVE RawLineOf(_, _)
RawLineOf(toks, k) ==
  IF k = 0 THEN <<>>
  ELSE RawLineOf(toks, k - 1) \o <<" ">> \o Labels[k] \o toks[k].ws \o toks[k].text

RawLine == RawLineOf(tokens, 4)

(* Lines 141-143: the read loop hands the garbled line to the parser. *)
ParseRawLine ==
  /\ parsed = Pending
  /\ parsed' = ParseSerialLine(RawLine)
  /\ UNCHANGED <<store, updaterVars, client, forwardVars, tokens, hook>>

-----------------------------------------------------------------------------
(* useArduinoConnection: the hook's state and the ingestion read loop      *)

Ports == {1, 2}       \* the serial ports the user can pick in requestPort
NoPort == 0           \* a ref that holds null

(* A port: whether it is open, the read loop started on it ("none",        *)
(* "live", "ended", "failed"), the loop's buffer, the text the device has still to   *)
(* send and, for reference, all the text it sends.                         *)
IdlePort ==
  [open |-> FALSE, loop |-> "none", buffer |-> <<>>, input |-> <<>>, stream |-> <<>>]

(* Lines 15-23: the state and the refs after the first render.            *)
(* isRecording is the value last handed to setIsRecording; connecting      *)
(* counts the connect calls that await requestPort or open, connects all   *)
(* connect calls made, disconnecting is the await a disconnect call stands *)
(* at.  emitted is the history of the records the loops parsed, each with  *)
(* isRecording at that moment and whether saveReading was called for it.   *)
(* currentExerciseIdRef is the binding saveReading reads; requests counts   *)
(* the startRecording calls that await the identifier request.  session    *)
(* is history: what the most recent startRecording or stopRecording call   *)
(* asked for (an identifier, Requested while the identifier of a call      *)
(* without one is awaited, NoSession after stopRecording).                 *)
Undefined == "undefined"        \* currentExerciseIdRef.current is undefined
Unassigned == "unassigned"      \* line 53: the placeholder of saveReading
Generated == "generated"        \* line 208: data.exerciseId or manual-<time>
Unknown == "unknown"            \* line 215: the default after a failed request
Requested == "requested"
NoSession == "no session"
RecordingIds == {ExerciseId}     \* identifiers handed to startRecording

IdleHook ==
  [connected |-> FALSE, portRef |-> NoPort, readerRef |-> NoPort,
   isRecording |-> FALSE, isRecordingRef |-> FALSE,
   currentReading |-> Null,
   ports |-> [p \in Ports |-> IdlePort],
   connecting |-> 0, connects |-> 0, disconnecting |-> "no",
   currentExerciseIdRef |-> Undefined, requests |-> 0, session |-> NoSession,
   emitted |-> <<>>]

NewLine == "\n"
TrimSpace == {" ", "\t", "\r", "\n"}

(* buffer.split("\n") *)
RECURSIVE Split(_)
Split(text) ==
  LET hits == {i \in DOMAIN text : text[i] = NewLine}
  IN IF hits = {} THEN <<text>>
     ELSE LET i == CHOOSE h \in hits : \A j \in hits : h <= j
          IN <<SubSeq(text, 1, i - 1)>> \o Split(SubSeq(text, i + 1, Len(text)))

(* line.trim() *)
RECURSIVE TrailingRun(_, _)
TrailingRun(line, class) ==
  IF line = <<>> \/ line[Len(line)] \notin class THEN 0
  ELSE 1 + TrailingRun(SubSeq(line, 1, Len(line) - 1), class)

Trim(line) ==
  LET a == RunLength(line, 1, TrimSpace)
  IN IF a = Len(line) THEN <<>>
     ELSE SubSeq(line, a + 1, Len(line) - TrailingRun(line, TrimSpace))

(* Sensitivity variant: the text after the last newline is dropped. *)
RemainderDropped(parts) == <<>>

(* Line 138: lines.pop() || "" *)
Remainder(parts) == parts[Len(parts)]

(* Lines 140-150: the records of the complete lines, in order: blank lines *)
(* and lines the parser rejects give none.                                 *)
RECURSIVE RecordsOf(_)
RecordsOf(lines) ==
  IF lines = <<>> THEN <<>>
  ELSE LET trimmed == Trim(lines[1])
           reading == IF trimmed = <<>> THEN Null ELSE ParseSerialLine(trimmed)
           rest == RecordsOf(SubSeq(lines, 2, Len(lines)))
       IN IF reading = Null THEN rest ELSE <<reading>> \o rest

(* Line 53: currentExerciseIdRef.current ?? "unassigned". *)
BoundExerciseId ==
  IF hook.currentExerciseIdRef = Undefined THEN Unassigned
  ELSE hook.currentExerciseIdRef

(* The document saveReading builds for a record (lines 53-66); the call    *)
(* stands at its addDoc.                                                   *)
NewClientReading ==
  [sentToN8N |-> FALSE, n8nResponse |-> <<>>, n8nStatusCode |-> <<>>,
   annotations |-> 0, pc |-> "add", threw |-> FALSE, status |-> 0,
   exerciseId |-> Unassigned, angle |-> NaN]

(* Lines 135-138: the chunk of n characters is appended to the buffer and  *)
(* the buffer is split at the newlines.                                    *)
PartsRead(p, n) ==
  Split(hook.ports[p].buffer \o SubSeq(hook.ports[p].input, 1, n))

(* Lines 140-143: the records of the complete lines of the chunk. *)
RecordsRead(p, n) ==
  LET parts == PartsRead(p, n)
  IN RecordsOf(SubSeq(parts, 1, Len(parts) - 1))

(* Lines 138-145: the hook once the chunk is processed. *)
HookAfterRead(p, n) ==
  LET port == hook.ports[p]
      records == RecordsRead(p, n)
  IN [hook EXCEPT
        !.ports[p].buffer = Remainder(PartsRead(p, n)),
        !.ports[p].input = SubSeq(port.input, n + 1, Len(port.input)),
        !.currentReading =
           IF records = <<>> THEN @ ELSE records[Len(records)],
        !.emitted = @ \o [k \in DOMAIN records |->
                            [reading |-> records[k], port |-> p,
                             recording |-> hook.isRecording,
                             session |-> hook.session,
                             exerciseId |-> BoundExerciseId,
                             saved |-> hook.isRecordingRef]]]

(* Lines 148-150: the documents of the saveReading calls the chunk starts. *)
HandedOver(p, n) ==
  IF hook.isRecordingRef
  THEN [k \in DOMAIN RecordsRead(p, n) |->
          [NewClientReading EXCEPT !.exerciseId = BoundExerciseId,
                                   !.angle = RecordsRead(p, n)[k].angle]]
  ELSE <<>>

(* Lines 132-151: reader.read() resolves with the next n characters; an    *)
(* empty value is skipped.  Every record becomes the current reading and   *)
(* is handed to saveReading when isRecordingRef.current is set.            *)
ReadChunk(p, n) ==
  /\ hook.ports[p].loop = "live"
  /\ Len(hook.ports[p].input) > 0
  /\ n <= Len(hook.ports[p].input)
  /\ hook' = HookAfterRead(p, n)
  /\ clientReadings' = clientReadings \o HandedOver(p, n)
  /\ UNCHANGED <<store, updaterVars, client, fwd, parserVars>>

(* Lines 153-155: reader.read() rejects; the loop's catch logs the error  *)
(* and the loop is over.                                                   *)
ReadFails(p) ==
  /\ hook.ports[p].loop = "live"
  /\ hook' = [hook EXCEPT !.ports[p].loop = "failed"]
  /\ UNCHANGED <<store, updaterVars, client, forwardVars, parserVars>>

(* Line 109: connect is called; the Connect Device button is rendered      *)
(* while connected is false.  requestPort and open are awaited.            *)
ConnectCall ==
  /\ ~hook.connected
  /\ hook.connects < MaxConnects
  /\ hook' = [hook EXCEPT !.connecting = @ + 1, !.connects = @ + 1]
  /\ UNCHANGED <<store, updaterVars, client, forwardVars, parserVars>>

(* Lines 111-156: the user picked port p and it opened: the refs and       *)
(* connected are set and the read loop starts on a new reader.             *)
ConnectOpens(p, text) ==
  /\ hook.connecting > 0
  /\ ~hook.ports[p].open
  /\ hook' = [hook EXCEPT
                !.connecting = @ - 1,
                !.connected = TRUE, !.portRef = p, !.readerRef = p,
                !.ports[p] = [open |-> TRUE, loop |-> "live", buffer |-> <<>>,
                              input |-> text, stream |-> text]]
  /\ UNCHANGED <<store, updaterVars, client, forwardVars, parserVars>>

(* Lines 111-112 throw (no port picked, port busy): the catch, lines       *)
(* 159-162, logs and calls setConnected(false).                            *)
ConnectFails ==
  /\ hook.connecting > 0
  /\ hook' = [hook EXCEPT !.connecting = @ - 1, !.connected = FALSE]
  /\ UNCHANGED <<store, updaterVars, client, forwardVars, parserVars>>

(* What disconnect does once the reader is dealt with: it awaits           *)
(* portRef.current.close() if a port is held, and otherwise runs lines     *)
(* 178-181 and returns.                                                    *)
AfterCancel(h) ==
  IF h.portRef # NoPort
  THEN [h EXCEPT !.disconnecting = "close"]
  ELSE [h EXCEPT !.disconnecting = "no", !.connected = FALSE,
                 !.currentReading = Null]

(* Lines 166-169: disconnect is called: it awaits readerRef.current        *)
(* .cancel() if a reader is held.                                          *)
DisconnectCall ==
  /\ hook.disconnecting = "no"
  /\ hook' = IF hook.readerRef # NoPort
             THEN [hook EXCEPT !.disconnecting = "cancel"]
             ELSE AfterCancel(hook)
  /\ UNCHANGED <<store, updaterVars, client, forwardVars, parserVars>>

(* Lines 169-170: cancel resolves: the pending read resolves with done and *)
(* the loop breaks; the ref is cleared.                                    *)
CancelResolves ==
  /\ hook.disconnecting = "cancel"
  /\ hook.readerRef # NoPort
  /\ hook.ports[hook.readerRef].loop # "failed"
  /\ hook' = AfterCancel(
       [hook EXCEPT !.readerRef = NoPort,
                    !.ports[hook.readerRef].loop =
                       IF @ = "live" THEN "ended" ELSE @])
  /\ UNCHANGED <<store, updaterVars, client, forwardVars, parserVars>>

(* Lines 174-181: close resolves: the ref is cleared, connected is set to  *)
(* false and the current reading to null.                                  *)
CloseResolves ==
  /\ hook.disconnecting = "close"
  /\ hook.portRef # NoPort
  /\ hook' = [hook EXCEPT !.portRef = NoPort,
                          !.ports[hook.portRef].open = FALSE,
                          !.disconnecting = "no", !.connected = FALSE,
                          !.currentReading = Null]
  /\ UNCHANGED <<store, updaterVars, client, forwardVars, parserVars>>

(* Lines 169, 182-184: cancel rejects, as it does on a stream that a      *)
(* failed read has errored: the catch logs and disconnect returns.         *)
CancelRejects ==
  /\ hook.disconnecting = "cancel"
  /\ hook.readerRef # NoPort
  /\ hook.ports[hook.readerRef].loop = "failed"
  /\ hook' = [hook EXCEPT !.disconnecting = "no"]
  /\ UNCHANGED <<store, updaterVars, client, forwardVars, parserVars>>

(* Lines 174, 182-184: close rejects (the port is lost, or its readable is *)
(* still locked by the pipe to the decoder, which line 158 awaits in       *)
(* connect and not here): the catch logs and disconnect returns.           *)
CloseRejects ==
  /\ hook.disconnecting = "close"
  /\ hook' = [hook EXCEPT !.disconnecting = "no"]
  /\ UNCHANGED <<store, updaterVars, client, forwardVars, parserVars>>

(* Lines 193-198: startRecording(e) binds e and calls setIsRecording(true). *)
StartRecording(e) ==
  /\ hook' = [hook EXCEPT !.isRecording = TRUE, !.currentExerciseIdRef = e,
                          !.session = e]
  /\ UNCHANGED <<store, updaterVars, client, forwardVars, parserVars>>

(* Lines 200-204: startRecording() without an identifier awaits the        *)
(* identifier request.                                                     *)
StartRecordingRequest ==
  /\ hook.requests < MaxRequests
  /\ hook' = [hook EXCEPT !.requests = @ + 1, !.session = Requested]
  /\ UNCHANGED <<store, updaterVars, client, forwardVars, parserVars>>

(* What a pending startRecording() call does when its request has ended:   *)
(* it binds the identifier and calls setIsRecording(true).                 *)
RequestEnds(e) ==
  [hook EXCEPT !.requests = @ - 1, !.isRecording = TRUE,
               !.currentExerciseIdRef = e,
               !.session = IF @ = Requested THEN e ELSE @]

(* Lines 206-212: the request resolves. *)
RequestResolves ==
  /\ hook.requests > 0
  /\ hook' = RequestEnds(Generated)
  /\ UNCHANGED <<store, updaterVars, client, forwardVars, parserVars>>

(* Lines 213-217: fetch or res.json() throws. *)
RequestFails ==
  /\ hook.requests > 0
  /\ hook' = RequestEnds(Unknown)
  /\ UNCHANGED <<store, updaterVars, client, forwardVars, parserVars>>

(* Lines 222-226: stopRecording calls setIsRecording(false) and clears the *)
(* binding.                                                                *)
StopRecording ==
  /\ hook' = [hook EXCEPT !.isRecording = FALSE,
                          !.currentExerciseIdRef = Undefined,
                          !.session = NoSession]
  /\ UNCHANGED <<store, updaterVars, client, forwardVars, parserVars>>

(* Lines 26-28: after the next render the effect copies the state into    *)
(* the ref the read loop tests.                                            *)
SyncRecordingRef ==
  /\ hook.isRecordingRef # hook.isRecording
  /\ hook' = [hook EXCEPT !.isRecordingRef = hook.isRecording]
  /\ UNCHANGED <<store, updaterVars, client, forwardVars, parserVars>>

-----------------------------------------------------------------------------
(* Specifications                                                          *)

(* One assignment of the exercise exists; nothing has been measured. *)
InitWith(targets) ==
  /\ readings = <<>>
  /\ \E t \in targets : assignedExercises = <<NewAssigned(t)>>
  /\ exerciseProgress = <<>>
  /\ progressOrder = <<>>
  /\ inv = <<>>
  /\ redelivered = 0
  /\ failures = 0
  /\ client = IdleClient
  /\ fwd = <<>>
  /\ clientReadings = <<>>
  /\ tokens = [k \in 1..4 |-> AbsentToken]
  /\ parsed = Pending
  /\ hook = IdleHook

(* The steps of one updateExerciseProgress invocation that return normally. *)
Updater(i) ==
  \/ QueryAssigned(i)
  \/ QueryProgress(i)
  \/ AddProgress(i)
  \/ UpdateAssigned(i)
  \/ UpdateProgress(i)

(* Spec: Measurements arrive while earlier invocations still run, and a    *)
(* creation event may be delivered twice.                                  *)
Init == InitWith(TargetRepsChoices)

Next ==
  \/ CreateReading
  \/ Redeliver
  \/ \E i \in DOMAIN inv : QueryAssigned(i)
  \/ \E i \in DOMAIN inv : QueryProgress(i)
  \/ \E i \in DOMAIN inv : AddProgress(i)
  \/ \E i \in DOMAIN inv : UpdateAssigned(i)
  \/ \E i \in DOMAIN inv : UpdateProgress(i)

Spec == Init /\ [][Next]_vars

(* SpecSeq: each Measurement is processed to the end before the next one   *)
(* is created and is delivered once; awaited calls may throw, and the      *)
(* patient may start the exercise from the dashboard.                      *)
RECURSIVE SeqsOf(_, _)
SeqsOf(S, n) ==
  IF n = 0 THEN {<<>>}
  ELSE {Append(s, x) : s \in SeqsOf(S, n - 1), x \in S}

SeqStreams == SeqsOf(Angles, SeqLen) \cup {C2Angles, C8Angles}

RecordedAngles == [r \in DOMAIN readings |-> readings[r].angle]

IsPrefix(s, t) == Len(s) <= Len(t) /\ s = SubSeq(t, 1, Len(s))

CreateReadingSeq ==
  /\ Running = {}
  /\ \E s \in SeqStreams :
       /\ Len(s) > Len(readings)
       /\ IsPrefix(RecordedAngles, s)
       /\ SaveReading(s[Len(readings) + 1], ExerciseId)

InitSeq == InitWith(SeqTargetReps)

NextSeq ==
  \/ CreateReadingSeq
  \/ \E i \in DOMAIN inv : QueryAssigned(i)
  \/ \E i \in DOMAIN inv : QueryProgress(i)
  \/ \E i \in DOMAIN inv : AddProgress(i)
  \/ \E i \in DOMAIN inv : UpdateAssigned(i)
  \/ \E i \in DOMAIN inv : UpdateProgress(i)
  \/ \E i \in DOMAIN inv : Fail(i)
  \/ \E a \in DOMAIN assignedExercises : HandleStartExercise(a)
  \/ StartUpdateAssigned
  \/ StartCreateProgress
  \/ \E reverted \in BOOLEAN : StartFails(reverted)

SpecSeq == InitSeq /\ [][NextSeq]_vars

(* SpecRedeliver: the invocations still run one after another, and a       *)
(* creation event may be delivered again once its first delivery has been  *)
(* processed, at once or after further Measurements.                       *)
RedeliverSeq ==
  /\ Running = {}
  /\ Redeliver

NextRedeliver ==
  \/ CreateReadingSeq
  \/ RedeliverSeq
  \/ \E i \in DOMAIN inv : QueryAssigned(i)
  \/ \E i \in DOMAIN inv : QueryProgress(i)
  \/ \E i \in DOMAIN inv : AddProgress(i)
  \/ \E i \in DOMAIN inv : UpdateAssigned(i)
  \/ \E i \in DOMAIN inv : UpdateProgress(i)

SpecRedeliver == InitSeq /\ [][NextRedeliver]_vars

(* SpecFwd: the two webhook forwarders. *)
CreateReadingFwd ==
  /\ Len(readings) < MaxClientReadings
  /\ SaveReading(TargetAngleMin, ExerciseId)

NextFwd ==
  \/ CreateReadingFwd
  \/ \E r \in DOMAIN fwd, code \in HttpStatuses : FetchReturns(r, code)
  \/ \E r \in DOMAIN fwd : FetchThrows(r)
  \/ \E r \in DOMAIN fwd : WriteResponse(r)
  \/ \E r \in DOMAIN fwd : WriteResponseThrows(r)
  \/ \E r \in DOMAIN fwd : WriteFailure(r)
  \/ \E r \in DOMAIN fwd : WriteFailureThrows(r)
  \/ HookSaveReading
  \/ \E k \in DOMAIN clientReadings, code \in HttpStatuses : HookFetchReturns(k, code)
  \/ \E k \in DOMAIN clientReadings : HookFetchThrows(k)
  \/ \E k \in DOMAIN clientReadings : HookUpdateDoc(k)
  \/ \E k \in DOMAIN clientReadings : HookUpdateDocThrows(k)

SpecFwd == InitWith({1}) /\ [][NextFwd]_vars

(* SpecParse: parseSerialLine applied to every line of the bounded set. *)
InitParse ==
  /\ readings = <<>>
  /\ assignedExercises = <<NewAssigned(1)>>
  /\ exerciseProgress = <<>>
  /\ progressOrder = <<>>
  /\ inv = <<>>
  /\ redelivered = 0
  /\ failures = 0
  /\ client = IdleClient
  /\ fwd = <<>>
  /\ clientReadings = <<>>
  /\ tokens \in [1..4 -> TokenChoices]
  /\ parsed = Pending
  /\ hook = IdleHook

NextParse == ParseLine

SpecParse == InitParse /\ [][NextParse]_vars

(* SpecParseRaw: parseSerialLine applied to every garbled line of the      *)
(* bounded set.                                                            *)
InitParseRaw ==
  /\ readings = <<>>
  /\ assignedExercises = <<NewAssigned(1)>>
  /\ exerciseProgress = <<>>
  /\ progressOrder = <<>>
  /\ inv = <<>>
  /\ redelivered = 0
  /\ failures = 0
  /\ client = IdleClient
  /\ fwd = <<>>
  /\ clientReadings = <<>>
  /\ tokens \in [1..4 -> RawTokenChoices]
  /\ parsed = Pending
  /\ hook = IdleHook

NextParseRaw == ParseRawLine

SpecParseRaw == InitParseRaw /\ [][NextParseRaw]_vars

(* SpecIngest: the read loop of one connected device, the device's text   *)
(* arriving in chunks cut at any positions.                                *)
SampleLine(values) ==
  Tail(LineOf([k \in 1..4 |->
                 [present |-> TRUE, ws |-> <<" ">>,
                  number |-> [neg |-> FALSE, whole |-> values[k], frac |-> <<>>]]], 4))

IngestStreams ==
  { SampleLine(<<1, 2, 3, 4>>) \o <<NewLine>> \o SampleLine(<<5, 6, 7, 8>>) \o <<NewLine>>,
    SampleLine(<<1, 2, 3, 4>>) \o <<"\r", NewLine, " ", NewLine>>
      \o <<"R", "o", "l", "l", ":", NewLine>> \o SampleLine(<<5, 6, 7, 8>>) }

InitIngest ==
  /\ readings = <<>>
  /\ assignedExercises = <<NewAssigned(1)>>
  /\ exerciseProgress = <<>>
  /\ progressOrder = <<>>
  /\ inv = <<>>
  /\ redelivered = 0
  /\ failures = 0
  /\ client = IdleClient
  /\ fwd = <<>>
  /\ clientReadings = <<>>
  /\ tokens = [k \in 1..4 |-> AbsentToken]
  /\ parsed = Pending
  /\ \E text \in IngestStreams :
       hook = [IdleHook EXCEPT
                 !.connected = TRUE, !.portRef = 1, !.readerRef = 1,
                 !.ports[1] = [open |-> TRUE, loop |-> "live", buffer |-> <<>>,
                               input |-> text, stream |-> text]]

NextIngest == \E n \in 0..Len(hook.ports[1].input) : ReadChunk(1, n)

SpecIngest == InitIngest /\ [][NextIngest]_vars

(* SpecHook: the hook's calls and effects in any order; a device sends   *)
(* a line and the start of the next, and the loop reads up to the next     *)
(* newline.                                                                *)
HookStream ==
  SampleLine(<<1, 2, 3, 4>>) \o <<NewLine>> \o SubSeq(SampleLine(<<5, 6, 7, 8>>), 1, 12)

(* The positions of the newlines of a text. *)
NewLinesOf(text) == {i \in DOMAIN text : text[i] = NewLine}

FirstNewLine(text) ==
  CHOOSE i \in NewLinesOf(text) : \A j \in NewLinesOf(text) : i <= j

ReadLine(p) ==
  /\ NewLinesOf(hook.ports[p].input) # {}
  /\ ReadChunk(p, FirstNewLine(hook.ports[p].input))

(* The dashboard offers Start Recording and starts an exercise only while *)
(* connected is true.                                                      *)
StartRecordingConnected ==
  /\ hook.connected
  /\ StartRecording(ExerciseId)

NextHook ==
  \/ ConnectCall
  \/ \E p \in Ports : ConnectOpens(p, HookStream)
  \/ ConnectFails
  \/ \E p \in Ports : ReadLine(p)
  \/ \E p \in Ports : ReadFails(p)
  \/ DisconnectCall
  \/ CancelResolves
  \/ CloseResolves
  \/ CancelRejects
  \/ CloseRejects
  \/ StartRecordingConnected
  \/ StopRecording
  \/ SyncRecordingRef

SpecHook == InitWith({1}) /\ [][NextHook]_vars

(* SpecRecord: one connected device sends two lines while recording is     *)
(* started, with and without an identifier, and stopped in any order.      *)
(* SpecForward: the device sends them while recording is on, and           *)
(* saveReading forwards each stored Measurement on its own.                *)
RecordStream ==
  SampleLine(<<1, 2, 3, 4>>) \o <<NewLine>> \o SampleLine(<<5, 6, 7, 8>>) \o <<NewLine>>

InitRecord ==
  /\ readings = <<>>
  /\ assignedExercises = <<NewAssigned(1)>>
  /\ exerciseProgress = <<>>
  /\ progressOrder = <<>>
  /\ inv = <<>>
  /\ redelivered = 0
  /\ failures = 0
  /\ client = IdleClient
  /\ fwd = <<>>
  /\ clientReadings = <<>>
  /\ tokens = [k \in 1..4 |-> AbsentToken]
  /\ parsed = Pending
  /\ hook = [IdleHook EXCEPT
               !.connected = TRUE, !.portRef = 1, !.readerRef = 1,
               !.ports[1] = [open |-> TRUE, loop |-> "live", buffer |-> <<>>,
                             input |-> RecordStream, stream |-> RecordStream]]

NextRecord ==
  \/ ReadLine(1)
  \/ \E e \in RecordingIds : StartRecording(e)
  \/ StartRecordingRequest
  \/ RequestResolves
  \/ RequestFails
  \/ StopRecording
  \/ SyncRecordingRef

SpecRecord == InitRecord /\ [][NextRecord]_vars

ForwardStream == RecordStream \o SampleLine(<<9, 10, 11, 12>>) \o <<NewLine>>

InitForward ==
  /\ readings = <<>>
  /\ assignedExercises = <<NewAssigned(1)>>
  /\ exerciseProgress = <<>>
  /\ progressOrder = <<>>
  /\ inv = <<>>
  /\ redelivered = 0
  /\ failures = 0
  /\ client = IdleClient
  /\ fwd = <<>>
  /\ clientReadings = <<>>
  /\ tokens = [k \in 1..4 |-> AbsentToken]
  /\ parsed = Pending
  /\ hook = [IdleHook EXCEPT
               !.connected = TRUE, !.portRef = 1, !.readerRef = 1,
               !.isRecording = TRUE, !.isRecordingRef = TRUE,
               !.currentExerciseIdRef = ExerciseId, !.session = ExerciseId,
               !.ports[1] = [open |-> TRUE, loop |-> "live", buffer |-> <<>>,
                             input |-> ForwardStream, stream |-> ForwardStream]]

NextForward ==
  \/ ReadLine(1)
  \/ \E k \in DOMAIN clientReadings : HookAddDocReturns(k)
  \/ \E k \in DOMAIN clientReadings : HookAddDocThrows(k)
  \/ \E k \in DOMAIN clientReadings, code \in HttpStatuses : HookFetchReturns(k, code)
  \/ \E k \in DOMAIN clientReadings : HookFetchThrows(k)
  \/ \E k \in DOMAIN clientReadings : HookUpdateDoc(k)
  \/ \E k \in DOMAIN clientReadings : HookUpdateDocThrows(k)

(* Nothing is assumed of the webhook or of Firestore: their calls may     *)
(* return late or never.                                                   *)
SpecForward == InitForward /\ [][NextForward]_vars

(* SpecAssign: nothing is assigned at first; the physiotherapist assigns *)
(* the exercise, the patient starts and completes it, and Measurements     *)
(* with and without an exercise identifier are processed one at a time.    *)
InitAssign ==
  /\ readings = <<>>
  /\ assignedExercises = <<>>
  /\ exerciseProgress = <<>>
  /\ progressOrder = <<>>
  /\ inv = <<>>
  /\ redelivered = 0
  /\ failures = 0
  /\ client = IdleClient
  /\ fwd = <<>>
  /\ clientReadings = <<>>
  /\ tokens = [k \in 1..4 |-> AbsentToken]
  /\ parsed = Pending
  /\ hook = IdleHook

CreateReadingAssign ==
  /\ Running = {}
  /\ Len(readings) < MaxAssignReadings
  /\ \E a \in {TargetAngleMin, TargetAngleMax + 5}, e \in {ExerciseId, NoExercise} :
       SaveReading(a, e)

StartExerciseAssign(a) ==
  /\ Len(exerciseProgress) < MaxSessions
  /\ HandleStartExercise(a)

NextAssign ==
  \/ \E t \in TargetRepsChoices : AssignExercise(t)
  \/ \E a \in DOMAIN assignedExercises : StartExerciseAssign(a)
  \/ StartUpdateAssigned
  \/ StartCreateProgress
  \/ \E reverted \in BOOLEAN : StartFails(reverted)
  \/ HandleCompleteExercise
  \/ CompleteUpdateAssigned
  \/ CompleteUpdateProgress
  \/ CompleteFails
  \/ CreateReadingAssign
  \/ \E i \in DOMAIN inv : QueryAssigned(i)
  \/ \E i \in DOMAIN inv : QueryProgress(i)
  \/ \E i \in DOMAIN inv : AddProgress(i)
  \/ \E i \in DOMAIN inv : UpdateAssigned(i)
  \/ \E i \in DOMAIN inv : UpdateProgress(i)

SpecAssign == InitAssign /\ [][NextAssign]_vars

(* SpecExtremes: Measurements with angles around zero are processed one  *)
(* after another, for an assignment whose target may be zero: the Target   *)
(* Reps input of the template takes any number.                            *)
ExtremeAngles == {0 - 5, 0, TargetAngleMin + 5}
ExtremeTargetReps == {0, 1, 2}

CreateReadingExtremes ==
  /\ Running = {}
  /\ Len(readings) < MaxExtremeReadings
  /\ \E a \in ExtremeAngles : SaveReading(a, ExerciseId)

NextExtremes ==
  \/ CreateReadingExtremes
  \/ \E i \in DOMAIN inv : QueryAssigned(i)
  \/ \E i \in DOMAIN inv : QueryProgress(i)
  \/ \E i \in DOMAIN inv : AddProgress(i)
  \/ \E i \in DOMAIN inv : UpdateAssigned(i)
  \/ \E i \in DOMAIN inv : UpdateProgress(i)

SpecExtremes == InitWith(ExtremeTargetReps) /\ [][NextExtremes]_vars

-----------------------------------------------------------------------------
(* Properties                                                              *)

(* The band of an assignment, as the documents state it. *)
InBand(r, a) ==
  /\ assignedExercises[a].targetAngleMin <= readings[r].angle
  /\ readings[r].angle <= assignedExercises[a].targetAngleMax

(* Invocation i persists its update in this step (line 230 returned). *)
Persists(i) ==
  /\ inv[i].pc = "updateProgress"
  /\ inv'[i].pc = "idle"
  /\ failures' = failures

C2Processed(p) ==
  LET a == exerciseProgress[p].assignedExerciseId
  IN /\ RecordedAngles = C2Angles
     /\ exerciseProgress[p].readingIds = <<1, 2, 3, 4, 5, 6>>
     /\ assignedExercises[a].targetAngleMin = 45
     /\ assignedExercises[a].targetAngleMax = 90

C3CompletedOnce ==
  /\ \A a \in DOMAIN assignedExercises : assignedExercises[a].completions <= 1
  /\ \A p \in DOMAIN exerciseProgress : exerciseProgress[p].completions <= 1

(* C4 (SpecRedeliver): for every sequence of invocations in which the      *)
(* creation event of a Measurement is delivered twice, the session's       *)
(* stored repetition count is raised at most once on account of it.        *)
C4CountedOnce ==
  \A r \in DOMAIN readings : readings[r].repsCredited <= 1

(* C5 (Spec): under every interleaving of the invocations, the stored      *)
(* repetition count of a session never decreases, and an update raises it  *)
(* by at most 1.                                                           *)
C5Monotonic ==
  [][\A p \in DOMAIN exerciseProgress :
       /\ exerciseProgress'[p].repsCompleted >= exerciseProgress[p].repsCompleted
       /\ exerciseProgress'[p].repsCompleted <= exerciseProgress[p].repsCompleted + 1]_vars

(* C6 (Spec): at most one active session per assignment. *)
C6OneActiveSession ==
  \A a \in DOMAIN assignedExercises : Cardinality(ActiveProgress(a)) <= 1

(* C7 (SpecSeq): when an invocation that reached a session ends, by its    *)
(* return or by its catch, the assignment is completed if and only if the  *)
(* session is.                                                             *)
C7CompletedTogether ==
  [][\A i \in DOMAIN inv :
       (InFlight(i) /\ inv'[i].pc = "idle" /\ inv[i].pId # 0) =>
         (assignedExercises'[inv[i].aId].status = "completed"
            <=> exerciseProgress'[inv[i].pId].status = "completed")]_vars

(* The angles of the Measurements in a list of identifiers. *)
RECURSIVE SumAngles(_)
SumAngles(ids) ==
  IF ids = <<>> THEN 0
  ELSE readings[ids[1]].angle + SumAngles(SubSeq(ids, 2, Len(ids)))

(* The most recent contributing Measurements of a session, ten at most. *)
MostRecent(ids) ==
  IF Len(ids) < 10 THEN ids ELSE SubSeq(ids, Len(ids) - 9, Len(ids))

(* C8 (SpecSeq): with the Measurements processed one after another and     *)
(* each delivered once, the stored average of a session that has been      *)
(* updated is the mean of the angles of its most recent contributing       *)
(* Measurements, the one just processed included: of all of them while     *)
(* fewer than 10 exist, of the last 10 from then on.                       *)
C8RollingAverage ==
  \A p \in DOMAIN exerciseProgress :
    LET s == exerciseProgress[p]
        recent == MostRecent(s.readingIds)
    IN s.averageAngle # <<>> =>
         /\ s.averageAngle[1].count = Len(recent)
         /\ s.averageAngle[1].sum * Len(recent)
              = SumAngles(recent) * s.averageAngle[1].count

(* C8's case: a session updated for its 16th contributing Measurement: 15  *)
(* earlier ones exist and the average is over the last 10.                 *)
C8Witness ==
  \E p \in DOMAIN exerciseProgress :
    /\ Len(exerciseProgress[p].readingIds) = 16
    /\ exerciseProgress[p].averageAngle # <<>>
    /\ exerciseProgress[p].averageAngle[1].count = 10
    /\ exerciseProgress[p].averageAngle[1].sum
         = SumAngles(SubSeq(exerciseProgress[p].readingIds, 7, 16))

(* What the record of a failed forward shows. *)
FailureShown(doc) ==
  /\ doc.sentToN8N = FALSE
  /\ doc.n8nStatusCode = <<0>>
  /\ doc.n8nResponse # <<>>
  /\ doc.n8nResponse[1] # ""

(* C9 (SpecFwd): in each forwarder, once the forwarder has returned for a  *)
(* Measurement whose webhook call threw, the Measurement shows             *)
(* forwarded = false, status code 0 and a non-empty error message.         *)
C9FailureAnnotated ==
  /\ \A r \in DOMAIN fwd :
       (fwd[r].threw /\ fwd[r].pc = "done") => FailureShown(readings[r])
  /\ \A k \in DOMAIN clientReadings :
       (clientReadings[k].threw /\ clientReadings[k].pc = "done")
         => FailureShown(clientReadings[k])

(* Two decimal fractions denote the same number. *)
SameNumber(x, y) == ~x.nan /\ ~y.nan /\ x.num * y.den = y.num * x.den

(* C10 (SpecParse): for a line that holds all four labelled tokens, each   *)
(* followed by a signed decimal, parseSerialLine returns exactly the four  *)
(* values the line spells; for a line that lacks one of them it returns no *)
(* result.                                                                 *)
C10ExactValues ==
  parsed # Pending =>
    IF \A k \in 1..4 : tokens[k].present
    THEN /\ parsed.state = "reading"
         /\ SameNumber(parsed.angle, NumberValue(tokens[1].number))
         /\ SameNumber(parsed.roll, NumberValue(tokens[2].number))
         /\ SameNumber(parsed.pitch, NumberValue(tokens[3].number))
         /\ SameNumber(parsed.yaw, NumberValue(tokens[4].number))
    ELSE parsed = Null

(* The text port p has delivered so far. *)
Delivered(p) ==
  SubSeq(hook.ports[p].stream, 1,
         Len(hook.ports[p].stream) - Len(hook.ports[p].input))

(* The k-th line of a text: the text between the (k-1)-th and the k-th    *)
(* newline.                                                                *)
LineEnd(text, k) ==
  CHOOSE i \in NewLinesOf(text) :
    Cardinality({j \in NewLinesOf(text) : j <= i}) = k

LineAt(text, k) ==
  SubSeq(text, IF k = 1 THEN 1 ELSE LineEnd(text, k - 1) + 1, LineEnd(text, k) - 1)

(* The records of the uncut text: one per newline-terminated line that is  *)
(* not blank and that the parser accepts, in order.                        *)
UncutRecords(text) ==
  RecordsOf([k \in 1..Cardinality(NewLinesOf(text)) |-> LineAt(text, k)])

(* The text after the last newline. *)
PartialLine(text) ==
  LET n == Cardinality(NewLinesOf(text))
  IN IF n = 0 THEN text ELSE SubSeq(text, LineEnd(text, n) + 1, Len(text))

(* C11 (SpecIngest): however the delivered text was cut into chunks, the   *)
(* loop has emitted exactly the records of the uncut delivered text, each  *)
(* once and in order, and its buffer holds the text after the last         *)
(* newline, which the next chunk completes.                                *)
C11ChunkInvariant ==
  \A p \in Ports :
    hook.ports[p].loop = "live" =>
      /\ [k \in DOMAIN hook.emitted |-> hook.emitted[k].reading]
           = UncutRecords(Delivered(p))
      /\ hook.ports[p].buffer = PartialLine(Delivered(p))

(* C11's case: the first line and the start of the second have arrived:    *)
(* one record is emitted and 'Angle: 5 Rol' is kept in the buffer.         *)
C11Witness ==
  /\ Len(hook.emitted) = 1
  /\ hook.ports[1].buffer = SubSeq(SampleLine(<<5, 6, 7, 8>>), 1, 12)
  /\ Len(hook.ports[1].input) > 0

(* C11's completion: the whole example has arrived and both records are    *)
(* emitted.                                                                *)
C11Completed ==
  /\ hook.ports[1].input = <<>>
  /\ Len(hook.emitted) = 2
  /\ hook.emitted[2].reading.angle = [nan |-> FALSE, num |-> 5, den |-> 1]

(* C12: a record the read loop parses is saved as a Measurement exactly    *)
(* when recording is on at that moment (not after stopRecording was        *)
(* called, always after startRecording completed), and every parsed record *)
(* becomes the current reading.                                            *)
C12SavedWhileRecording ==
  [][\A k \in (Len(hook.emitted) + 1)..Len(hook'.emitted) :
       /\ hook'.emitted[k].saved = hook'.emitted[k].recording
       /\ hook'.currentReading = hook'.emitted[Len(hook'.emitted)].reading]_vars

(* C13: when a disconnect call returns, the reader and the port are        *)
(* released and connected is false.                                        *)
C13Released ==
  [][(hook.disconnecting # "no" /\ hook'.disconnecting = "no")
       => /\ hook'.readerRef = NoPort
          /\ hook'.portRef = NoPort
          /\ ~hook'.connected]_vars

(* C14: when a read fails the loop is over and connected is cleared.      *)
C14ClearedOnFailure ==
  [][\A p \in Ports :
       (hook.ports[p].loop = "live" /\ hook'.ports[p].loop = "failed")
          => ~hook'.connected]_vars

(* C15: at most one read loop is live. *)
LiveLoops == {p \in Ports : hook.ports[p].loop = "live"}

C15OneLiveLoop == Cardinality(LiveLoops) <= 1

(* The fields of a stored Measurement document. *)
MeasurementDoc(doc) ==
  [angle |-> doc.angle, exerciseId |-> doc.exerciseId,
   sentToN8N |-> doc.sentToN8N, n8nResponse |-> doc.n8nResponse,
   n8nStatusCode |-> doc.n8nStatusCode]

(* C16: an invocation in which an awaited call fails returns the outcome  *)
(* with success false, is not started again, and no step of any invocation *)
(* changes a Measurement document.                                         *)
C16NonFatalFailure ==
  [][/\ \A i \in DOMAIN inv :
          /\ (failures' # failures /\ inv'[i] # inv[i])
                => inv'[i].pc = "idle" /\ inv'[i].outcome = "failure"
          /\ inv[i].outcome = "failure" => inv'[i] = inv[i]
     /\ failures' # failures => Len(inv') = Len(inv)
     /\ \A r \in DOMAIN readings :
          MeasurementDoc(readings'[r]) = MeasurementDoc(readings[r])]_vars

(* A create has succeeded and a later awaited call has failed. *)
C16Witness ==
  /\ \E i \in DOMAIN inv : inv[i].outcome = "failure"
  /\ Len(exerciseProgress) > 0
  /\ Len(readings) >= 2

(* C17: the delivery-outcome fields of a Measurement are written at most  *)
(* once, and once its forwarder has ended, whatever the outcome of the     *)
(* webhook call and of the write-back, they have been written exactly      *)
(* once.                                                                   *)
C17AnnotatedOnce ==
  /\ \A r \in DOMAIN fwd :
       /\ readings[r].annotations <= 1
       /\ fwd[r].pc \in {"done", "rejected"} => readings[r].annotations = 1
  /\ \A k \in DOMAIN clientReadings :
       /\ clientReadings[k].annotations <= 1
       /\ clientReadings[k].pc = "done" => clientReadings[k].annotations = 1

(* C18: at most one assignment of the exercise is assigned or in_progress. *)
C18OneActiveAssignment == Cardinality(ActiveAssigned(ExerciseId)) <= 1

(* C19: an invocation for a Measurement without an exercise identifier,   *)
(* or with one that no assigned or in_progress assignment matches, ends at *)
(* the query with the outcome null; it changes no assignment and no        *)
(* session and adds none.                                                  *)
C19NoMatchNoEffect ==
  [][\A i \in DOMAIN inv :
       LET e == readings[inv[i].readingId].exerciseId
       IN (/\ inv[i].pc = "queryAssigned"
           /\ inv'[i] # inv[i]
           /\ (e = NoExercise \/ ActiveAssigned(e) = {}))
            => /\ inv'[i].pc = "idle"
               /\ inv'[i].outcome = "null"
               /\ assignedExercises' = assignedExercises
               /\ exerciseProgress' = exerciseProgress
               /\ progressOrder' = progressOrder]_vars

(* Both cases have happened: the exercise was completed from the          *)
(* dashboard, then a Measurement without an identifier and a Measurement   *)
(* of the completed exercise were processed.                               *)
C19Witness ==
  /\ \A a \in DOMAIN assignedExercises : assignedExercises[a].status = "completed"
  /\ Len(assignedExercises) > 0
  /\ \E i, j \in DOMAIN inv :
       /\ readings[i].exerciseId = NoExercise
       /\ readings[j].exerciseId = ExerciseId
       /\ inv[i].outcome = "null"
       /\ inv[j].outcome = "null"

(* A text is a well-formed signed decimal: an optional sign, digits with  *)
(* at most one point, at least one digit, and nothing else.                *)
WellFormed(text) ==
  LET i == IF Len(text) > 0 /\ text[1] = "-" THEN 2 ELSE 1
      n1 == RunLength(text, i, Digits)
      point == i + n1 <= Len(text) /\ text[i + n1] = "."
      n2 == IF point THEN RunLength(text, i + n1 + 1, Digits) ELSE 0
  IN /\ n1 + n2 > 0
     /\ (i - 1) + n1 + (IF point THEN 1 ELSE 0) + n2 = Len(text)

(* C20 (SpecParseRaw): for a line in which a label is followed by text    *)
(* that is not a well-formed signed decimal, parseSerialLine returns no    *)
(* result; no result it returns has a channel that is not a number.        *)
C20MalformedRejected ==
  parsed # Pending =>
    /\ (\E k \in 1..4 : ~WellFormed(tokens[k].text)) => parsed = Null
    /\ parsed.state = "reading" =>
         ~(parsed.angle.nan \/ parsed.roll.nan \/ parsed.pitch.nan \/ parsed.yaw.nan)

(* C21: every record handed to saveReading is stored with the identifier  *)
(* the most recent startRecording call bound; none is stored after         *)
(* stopRecording cleared the binding, and none with the placeholder.       *)
C21BoundIdentifier ==
  \A k \in DOMAIN hook.emitted :
    hook.emitted[k].saved =>
      /\ hook.emitted[k].session # NoSession
      /\ hook.emitted[k].exerciseId # Unassigned
      /\ hook.emitted[k].session # Requested
           => hook.emitted[k].exerciseId = hook.emitted[k].session

(* C28: recording is on only while the device is connected. *)
C28RecordingImpliesConnected == hook.isRecording => hook.connected

(* C29: after stopRecording, until startRecording is called again,        *)
(* recording is off and no identifier is bound.                            *)
C29StaysStopped ==
  hook.session = NoSession =>
    ~hook.isRecording /\ hook.currentExerciseIdRef = Undefined

(* C22: a step of the saveReading call of one record leaves the read     *)
(* loop, its buffer and its input, and every other record's Measurement    *)
(* as they are, whatever the webhook and the writes do; a read hands the   *)
(* following record over whatever the earlier calls stand at, and leaves   *)
(* them alone.                                                             *)
C22IngestionDecoupled ==
  [][/\ \A k \in DOMAIN clientReadings :
          clientReadings'[k] # clientReadings[k]
            => /\ hook' = hook
               /\ Len(clientReadings') = Len(clientReadings)
               /\ \A j \in DOMAIN clientReadings \ {k} :
                    clientReadings'[j] = clientReadings[j]
     /\ Len(hook'.emitted) > Len(hook.emitted)
          => /\ Len(clientReadings') = Len(clientReadings) + 1
             /\ clientReadings'[Len(clientReadings')].pc = "add"
             /\ hook'.ports[1].loop = "live"]_vars

(* The third record has been handed over while the first one's webhook    *)
(* call and the second one's addDoc have not returned.                     *)
C22Witness ==
  /\ Len(clientReadings) = 3
  /\ clientReadings[1].pc = "fetch"
  /\ clientReadings[2].pc = "add"
  /\ hook.ports[1].loop = "live"

(* The smallest and the largest angle among the Measurements ids names. *)
SmallestAngle(ids) ==
  CHOOSE a \in {readings[r].angle : r \in Range(ids)} :
    \A r \in Range(ids) : a <= readings[r].angle

LargestAngle(ids) ==
  CHOOSE a \in {readings[r].angle : r \in Range(ids)} :
    \A r \in Range(ids) : a >= readings[r].angle

(* C23: once every Measurement created so far is processed, each session  *)
(* stores the smallest and the largest angle of its contributing           *)
(* Measurements.                                                           *)
C23Extremes ==
  Running = {} =>
    \A p \in DOMAIN exerciseProgress :
      exerciseProgress[p].readingIds # <<>> =>
        /\ exerciseProgress[p].minAngle = <<SmallestAngle(exerciseProgress[p].readingIds)>>
        /\ exerciseProgress[p].maxAngle = <<LargestAngle(exerciseProgress[p].readingIds)>>

(* C24: once every Measurement created so far is processed, a session an  *)
(* invocation has updated whose repetition count has reached the           *)
(* assignment's targetReps is completed.                                   *)
C24CompletedAtTarget ==
  Running = {} =>
    \A p \in DOMAIN exerciseProgress :
      (/\ exerciseProgress[p].readingIds # <<>>
       /\ exerciseProgress[p].repsCompleted
            >= assignedExercises[exerciseProgress[p].assignedExerciseId].targetReps)
        => exerciseProgress[p].status = "completed"

(* C25: an assignment whose status is completed keeps that status. *)
C25CompletedIsFinal ==
  [][\A a \in DOMAIN assignedExercises :
       assignedExercises[a].status = "completed"
         => assignedExercises'[a].status = "completed"]_vars


(* The assignment created last among a set of assignments: assignments are *)
(* appended in the order of their creation.                                *)
MostRecentlyCreated(S) == CHOOSE a \in S : \A b \in S : b <= a

(* C26: when several assignments of the exercise are assigned or           *)
(* in_progress, the one updateExerciseProgress takes for the band, the     *)
(* target and the completion write is the most recently created of them.   *)
C26MostRecentAssignment ==
  [][\A i \in DOMAIN inv :
       (inv[i].pc = "queryAssigned" /\ inv'[i].pc = "queryProgress")
         => inv'[i].aId =
              MostRecentlyCreated(ActiveAssigned(readings[inv[i].readingId].exerciseId))]_vars

(* The figures of a session that the claim of finality is about. *)
SessionFigures(s) ==
  <<s.repsCompleted, s.minAngle, s.maxAngle, s.averageAngle, s.readingIds>>

(* C27: a session whose status is completed keeps its repetition count,    *)
(* minimum, maximum, average and contributing list in every later step,    *)
(* also in the step of an invocation that read the session while active.   *)
C27CompletedSessionFrozen ==
  [][\A p \in DOMAIN exerciseProgress :
       exerciseProgress[p].status = "completed"
         => SessionFigures(exerciseProgress'[p]) = SessionFigures(exerciseProgress[p])]_vars

-----------------------------------------------------------------------------
(* The exercise session: the dashboard, the device hook and the updater    *)
(* running together                                                        *)

(* The statuses the assignment subscription would deliver now. *)
StoredStatuses == [a \in DOMAIN assignedExercises |-> assignedExercises[a].status]

(* Dashboard lines 669-688: onSnapshot delivers the assignments and        *)
(* setAssignedExercises stores them.                                       *)
AssignmentsSnapshot ==
  /\ client.assignedExercises # StoredStatuses
  /\ client' = [client EXCEPT !.assignedExercises = StoredStatuses]
  /\ UNCHANGED <<store, updaterVars, forwardVars, parserVars, hook>>

(* Dashboard lines 980-988: the effect on assignedExercises and            *)
(* activeAssignmentId finds the active assignment completed: both active   *)
(* identifiers are cleared and stopRecording (hook lines 222-226) is       *)
(* called.                                                                 *)
CompletionEffect ==
  /\ client.activeAssignmentId # 0
  /\ client.activeAssignmentId \in DOMAIN client.assignedExercises
  /\ client.assignedExercises[client.activeAssignmentId] = "completed"
  /\ client' = [client EXCEPT !.activeAssignmentId = 0, !.activeProgressId = 0]
  /\ hook' = [hook EXCEPT !.isRecording = FALSE,
                          !.currentExerciseIdRef = Undefined,
                          !.session = NoSession]
  /\ UNCHANGED <<store, updaterVars, forwardVars, parserVars>>

(* Dashboard lines 869-892 with the hook's startRecording (lines 192-197): *)
(* the guards on connected, sessionLoading and activeAssignmentId, then    *)
(* startRecording(exercise.exerciseId) binds the identifier and switches   *)
(* recording on.  The card of a completed assignment offers no start.      *)
StartExerciseSession(a) ==
  /\ hook.connected
  /\ client.pc = "idle"
  /\ client.activeAssignmentId = 0
  /\ a \in DOMAIN client.assignedExercises
  /\ client.assignedExercises[a] # "completed"
  /\ client' = [client EXCEPT !.pc = "updateAssigned", !.exercise = a,
                              !.status = client.assignedExercises[a]]
  /\ hook' = [hook EXCEPT !.isRecording = TRUE,
                          !.currentExerciseIdRef = assignedExercises[a].exerciseId,
                          !.session = assignedExercises[a].exerciseId]
  /\ UNCHANGED <<store, updaterVars, forwardVars, parserVars>>

(* Hook line 68 with the trigger of the events collection: the addDoc of   *)
(* a record handed to saveReading completes, the Measurement is stored     *)
(* and its creation starts updateExerciseProgress.  The sample angles are  *)
(* whole numbers.                                                          *)
HookAddDocStores(k) ==
  /\ clientReadings[k].pc = "add"
  /\ Cardinality(Running) < MaxInFlight
  /\ clientReadings' = [clientReadings EXCEPT ![k].pc = "fetch"]
  /\ readings' = Append(readings,
                        NewReading(clientReadings[k].angle.num \div clientReadings[k].angle.den,
                                   clientReadings[k].exerciseId))
  /\ inv' = Append(inv, Triggered(Len(readings) + 1))
  /\ fwd' = Append(fwd, [pc |-> "fetch", threw |-> FALSE, status |-> 0])
  /\ UNCHANGED <<assignedExercises, exerciseProgress, progressOrder, redelivered,
                 failures, client, parserVars, hook>>

(* The device sends three lines: angles below the band, inside it, inside. *)
SessionStream ==
  SampleLine(<<30, 2, 3, 4>>) \o <<NewLine>> \o SampleLine(<<50, 6, 7, 8>>) \o <<NewLine>>
    \o SampleLine(<<60, 10, 11, 12>>) \o <<NewLine>>

(* The device is connected, the exercise is assigned with one repetition   *)
(* as its target, and the dashboard has received the assignment.           *)
InitSession ==
  /\ readings = <<>>
  /\ assignedExercises = <<NewAssigned(1)>>
  /\ exerciseProgress = <<>>
  /\ progressOrder = <<>>
  /\ inv = <<>>
  /\ redelivered = 0
  /\ failures = 0
  /\ client = [IdleClient EXCEPT !.assignedExercises = <<"assigned">>]
  /\ fwd = <<>>
  /\ clientReadings = <<>>
  /\ tokens = [k \in 1..4 |-> AbsentToken]
  /\ parsed = Pending
  /\ hook = [IdleHook EXCEPT
               !.connected = TRUE, !.portRef = 1, !.readerRef = 1,
               !.ports[1] = [open |-> TRUE, loop |-> "live", buffer |-> <<>>,
                             input |-> SessionStream, stream |-> SessionStream]]

NextSession ==
  \/ \E a \in DOMAIN assignedExercises : StartExerciseSession(a)
  \/ StartUpdateAssigned
  \/ StartCreateProgress
  \/ AssignmentsSnapshot
  \/ CompletionEffect
  \/ SyncRecordingRef
  \/ ReadLine(1)
  \/ \E k \in DOMAIN clientReadings : HookAddDocStores(k)
  \/ \E i \in DOMAIN inv : QueryAssigned(i)
  \/ \E i \in DOMAIN inv : QueryProgress(i)
  \/ \E i \in DOMAIN inv : AddProgress(i)
  \/ \E i \in DOMAIN inv : UpdateAssigned(i)
  \/ \E i \in DOMAIN inv : UpdateProgress(i)

(* Snapshots of the subscription are delivered, and React runs the effect  *)
(* after the render that the delivered snapshot causes.                    *)
SpecSession ==
  /\ InitSession
  /\ [][NextSession]_vars
  /\ WF_vars(AssignmentsSnapshot)
  /\ WF_vars(CompletionEffect)

(* The updater has marked the dashboard's active assignment completed. *)
ActiveCompleted ==
  /\ client.activeAssignmentId # 0
  /\ assignedExercises[client.activeAssignmentId].status = "completed"

(* The dashboard has no active assignment or session and recording is off. *)
SessionCleared ==
  /\ client.activeAssignmentId = 0
  /\ client.activeProgressId = 0
  /\ ~hook.isRecording

(* The first half of C30: the clearing follows the completion. *)
C30EventuallyCleared == ActiveCompleted ~> SessionCleared

(* The second half of C30: once the completed session is cleared, no step  *)
(* stores a Measurement of the exercise.                                   *)
C30NothingStoredAfter ==
  [][(SessionCleared /\ \E a \in DOMAIN assignedExercises :
                          assignedExercises[a].status = "completed")
       => \A r \in DOMAIN readings' \ DOMAIN readings :
            readings'[r].exerciseId # ExerciseId]_vars

====
